---- MODULE Spec2Model ----
(***************************************************************************)
(* Model of the hitter pipeline of app/hitter/stats.py:                    *)
(*   get_complete_player_data = lookup -> basic splits -> pitch data ->    *)
(*   detailed pitch splits -> summary -> print -> save -> career files.    *)
(* Every remote call is one step; the remote service, the player           *)
(* directory, the file system and the clock are the environment.           *)
(*                                                                         *)
(* Representation.  A rate statistic is stored by the code as a string:    *)
(* str(<float>) or the marker 'N/A'.  Str(n) is the decimal string of the  *)
(* number n/1000 and NA the marker; ParseFloat is float().  A Python dict  *)
(* is a sequence of <<key, value>> pairs in insertion order.  An f-string  *)
(* key such as f"pitch_{pitch}_hand_{hand}" is the sequence of its parts   *)
(* joined by "_": <<"pitch", pitch, "hand", hand>>.                        *)
(***************************************************************************)
EXTENDS Integers, Sequences, FiniteSets, TLC

VARIABLES
  pc,              \* position of the process in get_complete_player_data
  player_name,     \* argument of the run
  season,          \* argument of the run
  player_search,   \* what statsapi.lookup_player returned
  player_id,       \* get_player_id's return value
  pos,             \* loop position inside the current fetch stage
  basic_splits,    \* dict built by step 1
  pitch_data,      \* dict built by get_pitch_type_data
  detailed_splits, \* report built by get_detailed_pitch_splits
  summary,         \* generate_performance_summary's return value
  printed,         \* the narrative lines print_performance_summary printed
  result,          \* what get_complete_player_data returned or raised
  calls,           \* remote queries issued in this run, in order
  failed,          \* how many of them failed (status or exception)
  okKeys,          \* report keys whose fetch returned atBats >= 5 (history)
  docs,            \* the four category documents on disk
  career,          \* <player>_career.json on disk
  all_players,     \* all_players_career.json on disk
  written,         \* files opened for writing in this run, in order
  now,             \* the clock read by datetime.now()
  env,             \* what the environment may still do in this behaviour
  runsLeft,        \* runs the user may still start
  prev,            \* the career document and arguments of the previous run (history)
  built            \* a call of get_combined_split_data up to its URL: params, split_name, url_params

vars == <<pc, player_name, season, player_search, player_id, pos, basic_splits,
          pitch_data, detailed_splits, summary, printed, result, calls, failed,
          okKeys, docs, career, all_players, written, now, env, runsLeft, prev,
          built>>

----------------------------------------------------------------------------
(* Bounds of the model *)

MaxClock == 1         \* clock ticks in one behaviour

(* Thresholds of the program *)

MinAtBats == 5        \* data.get('atBats', 0) >= 5
GroupMinAtBats == 10  \* group_data.get('atBats', 0) >= 10
SummaryMinAtBats == 10
NotableMinAtBats == 10
TopN == 5             \* notable_splits[:5]
ValidPitchMinAtBats == 20
SignificantDiff == 50  \* abs(lhp_avg - rhp_avg) >= 0.050, in thousandths
Ok == 200              \* response.status_code == 200

----------------------------------------------------------------------------
(* Python values *)

None == [tag |-> "None"]
NA == [s |-> "N/A", v |-> 0]
Str(n) == [s |-> "num", v |-> n]
CanFloat(x) == x.s = "num"          \* float('N/A') raises ValueError
ParseFloat(x) == x.v

EmptyDict == << >>
DictKeys(d) == {d[i][1] : i \in 1..Len(d)}
DictHas(d, k) == \E i \in 1..Len(d) : d[i][1] = k
DictGet(d, k) == d[CHOOSE i \in 1..Len(d) : d[i][1] = k][2]
DictSet(d, k, v) ==
  IF DictHas(d, k)
  THEN [i \in 1..Len(d) |-> IF d[i][1] = k THEN <<k, v>> ELSE d[i]]
  ELSE Append(d, <<k, v>>)

RECURSIVE SumSeq(_)
SumSeq(s) == IF s = << >> THEN 0 ELSE Head(s) + SumSeq(Tail(s))

----------------------------------------------------------------------------
(* The remote CSV export service *)

RequiredColumns ==
  {"ba", "slg", "obp", "hrs", "singles", "doubles", "triples", "so", "bb", "abs", "pa"}
AllColumns == RequiredColumns \cup {"ops"}

Row(cols, ba, obp, slg, ops, hrs, abs) ==
  [raises |-> FALSE, status |-> Ok, empty |-> FALSE, cols |-> cols,
   ba |-> ba, obp |-> obp, slg |-> slg, ops |-> ops, hrs |-> hrs, abs |-> abs]

RowA == Row(AllColumns, 250, 320, 400, 720, 1, 20)
RowB == Row(AllColumns, 300, 350, 500, 999, 2, 30)   \* upstream ops disagrees
RowNoBa == Row(AllColumns \ {"ba", "obp"}, 0, 0, 450, 0, 0, 20)   \* no ba, no obp
RowFive == Row(AllColumns, 200, 250, 300, 550, 0, 5)
RowLow == Row(AllColumns, 500, 500, 500, 1000, 0, 4)
RowZero == Row(AllColumns, 0, 0, 0, 0, 0, 0)
RowNoAbs == Row(AllColumns \ {"abs"}, 250, 320, 400, 720, 1, 20)
RowHitless == Row(AllColumns, 0, 100, 0, 100, 0, 10)   \* ba 0.0 in 10 at-bats

Raises == [RowZero EXCEPT !.raises = TRUE]           \* requests.get raises
Http404 == [RowZero EXCEPT !.status = 404]
EmptyCsv == [RowZero EXCEPT !.empty = TRUE]

Failures == {Raises, Http404}
Rows == {RowA, RowB, RowNoBa, RowFive, RowLow, RowZero, RowNoAbs, RowHitless}
Responses == Failures \cup Rows \cup {EmptyCsv}

IsFailure(resp) == resp.raises \/ resp.status # Ok

\* the at-bats of the row the service sent, 0 when it sent none
SentAtBats(resp) ==
  IF IsFailure(resp) \/ resp.empty \/ "abs" \notin resp.cols THEN 0 ELSE resp.abs

----------------------------------------------------------------------------
(* get_combined_split_data *)

PitchDisplayNames ==
  << <<"FF", "Fastball (4-seam)">>, <<"SI", "Sinker (2-Seam)">>, <<"FC", "Cutter">>,
     <<"CH", "Changeup">>, <<"FS", "Split-finger">>, <<"FO", "Forkball">>,
     <<"SC", "Screwball">>, <<"CU", "Curveball">>, <<"KC", "Knuckle Curve">>,
     <<"CS", "Slow Curve">>, <<"SL", "Slider">>, <<"ST", "Sweeper">>,
     <<"SV", "Slurve">>, <<"KN", "Knuckleball">>, <<"EP", "Eephus">>,
     <<"FA", "Other">>, <<"IN", "Intentional Ball">>, <<"PO", "Pitchout">> >>

\* pitch_types.get(params['pitch_type'], params['pitch_type'])
PitchName(code) ==
  IF DictHas(PitchDisplayNames, code) THEN DictGet(PitchDisplayNames, code) ELSE code

\* SplitName describing the parameters in the order the dict holds them
RECURSIVE SplitNameInDictOrder(_)
SplitNameInDictOrder(params) ==
  IF params = << >> THEN << >>
  ELSE <<(IF Head(params)[1] = "home_road" THEN Head(params)[2]
          ELSE IF Head(params)[1] = "pitcher_throws" THEN "vs " \o Head(params)[2] \o "HP"
          ELSE "on " \o PitchName(Head(params)[2]))>>
       \o SplitNameInDictOrder(Tail(params))

\* split_descriptions, joined by " "
SplitName(params) ==
  (IF DictHas(params, "home_road") THEN <<DictGet(params, "home_road")>> ELSE << >>)
  \o (IF DictHas(params, "pitcher_throws")
      THEN <<"vs " \o DictGet(params, "pitcher_throws") \o "HP">> ELSE << >>)
  \o (IF DictHas(params, "pitch_type")
      THEN <<"on " \o PitchName(DictGet(params, "pitch_type"))>> ELSE << >>)

\* url_params: hfPT first, then the other parameters in the dict's order
RECURSIVE OtherUrlParams(_)
OtherUrlParams(params) ==
  IF params = << >> THEN << >>
  ELSE (IF Head(params)[1] \in {"home_road", "pitcher_throws"}
        THEN <<Head(params)>> ELSE << >>) \o OtherUrlParams(Tail(params))

UrlParams(params) ==
  <<(IF DictHas(params, "pitch_type")
     THEN <<"hfPT", DictGet(params, "pitch_type") \o "%7C">>
     ELSE <<"hfPT", "">>)>> \o OtherUrlParams(params)

\* no call has been made
NotBuilt == [params |-> << >>, split_name |-> << >>, url_params |-> << >>, done |-> FALSE]

\* the part of get_combined_split_data before the request: the display name
\* and the URL parameters of the params it was called with
ComposeSplit ==
  /\ ~built.done
  /\ built' = [built EXCEPT !.split_name = SplitName(built.params),
                            !.url_params = UrlParams(built.params),
                            !.done = TRUE]
  /\ UNCHANGED <<pc, player_name, season, player_search, player_id, pos, basic_splits,
                 pitch_data, detailed_splits, summary, printed, result, calls, failed,
                 okKeys, docs, career, all_players, written, now, env, runsLeft, prev>>

\* LocalOps trusting the ops column of the row instead
LocalOpsUpstream(resp) == IF "ops" \in resp.cols THEN Str(resp.ops) ELSE NA

\* the ops field of a record: obp + slg of the same row
LocalOps(resp) ==
  IF "obp" \in resp.cols /\ "slg" \in resp.cols THEN Str(resp.obp + resp.slg) ELSE NA

CombinedStats(params, resp, t) ==
  [split_name |-> SplitName(params),
   params |-> params,
   avg |-> IF "ba" \in resp.cols THEN Str(resp.ba) ELSE NA,
   slg |-> IF "slg" \in resp.cols THEN Str(resp.slg) ELSE NA,
   obp |-> IF "obp" \in resp.cols THEN Str(resp.obp) ELSE NA,
   ops |-> LocalOps(resp),
   homeRuns |-> IF "hrs" \in resp.cols THEN resp.hrs ELSE 0,
   atBats |-> IF "abs" \in resp.cols THEN resp.abs ELSE 0,
   lastUpdated |-> t]

\* get_combined_split_data without the test of the at-bats
get_combined_split_dataAnyRow(params, resp, t) ==
  IF resp.raises THEN None
  ELSE IF resp.status # Ok THEN None
  ELSE IF resp.empty THEN None
  ELSE CombinedStats(params, resp, t)

\* None on an exception, a non-success status, an empty table, no at-bats
get_combined_split_data(params, resp, t) ==
  IF resp.raises THEN None
  ELSE IF resp.status # Ok THEN None
  ELSE IF resp.empty THEN None
  ELSE IF "abs" \in resp.cols /\ resp.abs > 0 THEN CombinedStats(params, resp, t)
  ELSE None

----------------------------------------------------------------------------
(* get_baseball_savant_data *)

Unbound == << >>

\* split_name is assigned in the two branches only
BasicSplitName(parameter_name, parameter_value) ==
  IF parameter_name = "pitcher_throws" THEN <<"vs " \o parameter_value \o "HP">>
  ELSE IF parameter_name = "home_road"
       THEN <<IF parameter_value = "Home" THEN "Home" ELSE "Away">>
       ELSE Unbound

BasicStats(resp, t) ==
  [avg |-> Str(resp.ba), slg |-> Str(resp.slg), obp |-> Str(resp.obp),
   ops |-> Str(resp.obp + resp.slg),
   homeRuns |-> resp.hrs, atBats |-> resp.abs, lastUpdated |-> t]

\* Every path of a 200 response formats split_name into a message; when it is
\* unbound that raises NameError, which the function's except turns into None.
get_baseball_savant_data(parameter_name, parameter_value, resp, t) ==
  IF resp.raises THEN None
  ELSE IF resp.status # Ok THEN None
  ELSE IF BasicSplitName(parameter_name, parameter_value) = Unbound THEN None
  ELSE IF resp.empty THEN None
  ELSE IF RequiredColumns \ resp.cols # {} THEN None
  ELSE BasicStats(resp, t)

\* EnoughData without the at-bats test: "if data"
EnoughDataAnyAtBats(data, n) == data # None

\* "if data and data.get('atBats', 0) >= n"
\* EnoughData that also wants a home run in the record
EnoughDataWithHomeRun(data, n) == data # None /\ data.atBats >= n /\ data.homeRuns > 0

EnoughData(data, n) == data # None /\ data.atBats >= n

----------------------------------------------------------------------------
(* The lists the stages iterate over *)

\* get_pitch_type_data: the keys of pitch_types, in order
PitchTypeCodes ==
  <<"FF", "SI", "FC", "CH", "FS", "FO", "SC", "CU", "KC", "CS", "SL", "ST", "SV",
    "KN", "EP", "FA", "IN", "PO">>

\* get_pitch_type_data: pitch_groups
PitchDataGroups ==
  << <<"Fastball", <<"FF", "SI", "FC">> >>,
     <<"Breaking", <<"CU", "KC", "CS", "SL", "ST", "SV", "KN">> >>,
     <<"Offspeed", <<"CH", "FS", "FO", "SC">> >>,
     <<"Other", <<"EP", "FA", "IN", "PO">> >> >>

\* get_detailed_pitch_splits: pitch_types, pitcher_hands, locations, pitch_groups
pitch_types ==
  <<"FF", "SI", "FC", "CH", "FS", "FO", "SC", "CU", "KC", "CS", "SL", "ST", "SV",
    "KN", "EP">>
\* pitcher_hands with a third, switch-throwing hand
pitcher_handsWithSwitch == <<"L", "R", "S">>

pitcher_hands == <<"L", "R">>
locations == <<"Home", "Road">>
\* pitch_groups with a fourth group for the eephus
pitch_groupsWithOther ==
  << <<"Fastball", <<"FF", "SI", "FC">> >>,
     <<"Breaking", <<"CU", "KC", "CS", "SL", "ST", "SV", "KN">> >>,
     <<"Offspeed", <<"CH", "FS", "FO", "SC">> >>,
     <<"Other", <<"EP">> >> >>

pitch_groups ==
  << <<"Fastball", <<"FF", "SI", "FC">> >>,
     <<"Breaking", <<"CU", "KC", "CS", "SL", "ST", "SV", "KN">> >>,
     <<"Offspeed", <<"CH", "FS", "FO", "SC">> >> >>

\* The pitch types the modelled batter is thrown: the loops run over the
\* program's lists, in the program's order, restricted to these codes.
InScope(codes) == SelectSeq(codes, LAMBDA c : c \in env.scope)
Seasons == {2023, 2024}

----------------------------------------------------------------------------
(* The environment: the directory, the remote's answers, the clock *)

Candidate(id, name) == [id |-> id, fullName |-> name]
PlayerNames == {"Aaron Judge", "Will Smith", "Nobody"}
\* statsapi.lookup_player
lookup_player(name) ==
  CASE name = "Aaron Judge" -> <<Candidate(1, "Aaron Judge")>>
    [] name = "Will Smith" -> <<Candidate(2, "Will Smith"), Candidate(3, "Will Smith")>>
    [] OTHER -> << >>

\* the basic queries of step 1 of get_complete_player_data:
\* <<parameter_name, parameter_value, key in basic_splits>>
BasicCalls ==
  << <<"overall", "total", "overall">>,
     <<"pitcher_throws", "R", "vs RHP">>,
     <<"pitcher_throws", "L", "vs LHP">>,
     <<"home_road", "Home", "Home">>,
     <<"home_road", "Road", "Away">> >>

\* What a response costs the environment.  A row is charged to the rows of
\* the behaviour: every row sent to a basic query, and a row with at least
\* five at-bats sent to a pitch query.  A failure is charged in every stage.
Charged(stage, resp) ==
  IF resp \in Failures THEN "fails"
  ELSE IF resp \in Rows /\ (stage = "basic" \/ SentAtBats(resp) >= 5) THEN "rows"
  ELSE "free"

\* the place of the current query in a table: the basic queries first, then
\* the queries of get_pitch_type_data
TableIndex(stage) ==
  IF stage = "basic" THEN pos.i
  ELSE IF stage = "pitch" THEN Len(BasicCalls) + pos.i
  ELSE 0

\* With a table the remote is deterministic: it answers the query at place
\* i of every run with table[i] and has no data for any other query.  Otherwise
\* it answers from its pool; it has charged rows for the queries of env.stages.
Allowed(stage) ==
  IF env.table # << >>
  THEN {IF TableIndex(stage) \in DOMAIN env.table THEN env.table[TableIndex(stage)]
        ELSE EmptyCsv}
  ELSE {resp \in env.pool :
          \/ Charged(stage, resp) = "free"
          \/ Charged(stage, resp) = "fails" /\ env.fails > 0
          \/ Charged(stage, resp) = "rows" /\ env.rows > 0 /\ stage \in env.stages}

Spend(stage, resp) ==
  IF env.table # << >> \/ Charged(stage, resp) = "free" THEN env
  ELSE [env EXCEPT ![Charged(stage, resp)] = @ - 1]

\* one remote query: logged, and charged to the environment
Query(stage, fn, params, resp) ==
  /\ calls' = Append(calls, [fn |-> fn, params |-> params])
  /\ failed' = IF IsFailure(resp) THEN failed + 1 ELSE failed
  /\ env' = Spend(stage, resp)

----------------------------------------------------------------------------
(* get_player_id and the start of get_complete_player_data *)

NoId == 0   \* get_player_id's None: the caller only tests "not player_id"

\* get_player_id falling back to the first known player when nothing matches
get_player_idFallback(search) == IF search = << >> THEN 1 ELSE search[1].id

get_player_id(search) == IF search = << >> THEN NoId ELSE search[1].id

\* no narrative line yet
NothingPrinted == [handedness |-> "", location |-> "", best |-> << >>, worst |-> << >>]

NoReport == [player_id |-> NoId, season |-> 0, lastUpdated |-> 0, splits |-> EmptyDict]

GetPlayerId ==
  /\ pc = "idle"
  /\ runsLeft > 0
  /\ \E name \in env.names, s \in env.seasons :
       LET search == lookup_player(name)
           id == get_player_id(search)
       IN /\ player_name' = name
          /\ season' = s
          /\ player_search' = search
          /\ player_id' = id
          /\ IF id = NoId
             THEN pc' = "idle" /\ result' = "None"
             ELSE pc' = "basic" /\ result' = "running"
  /\ runsLeft' = runsLeft - 1
  /\ pos' = [i |-> 1, h |-> 0, l |-> 0]
  /\ basic_splits' = EmptyDict
  /\ pitch_data' = EmptyDict
  /\ detailed_splits' = NoReport
  /\ summary' = None
  /\ printed' = NothingPrinted
  /\ calls' = << >>
  /\ failed' = 0
  /\ okKeys' = {}
  /\ written' = << >>
  /\ prev' = [player_name |-> player_name, season |-> season, result |-> result,
              basic_splits |-> basic_splits, career |-> career]
  /\ UNCHANGED <<built, docs, career, all_players, now, env>>

----------------------------------------------------------------------------
(* Step 1 of get_complete_player_data: the basic splits *)

FetchBasic ==
  /\ pc = "basic"
  /\ \E resp \in Allowed("basic") :
       LET c == BasicCalls[pos.i]
           stats == get_baseball_savant_data(c[1], c[2], resp, now)
       IN /\ Query("basic", "get_baseball_savant_data", <<<<c[1], c[2]>>>>, resp)
          /\ basic_splits' = IF stats # None THEN DictSet(basic_splits, c[3], stats)
                             ELSE basic_splits
  /\ IF pos.i < Len(BasicCalls)
     THEN pc' = pc /\ pos' = [pos EXCEPT !.i = @ + 1]
     ELSE pc' = "pitch" /\ pos' = [i |-> 1, h |-> 0, l |-> 0]
  /\ UNCHANGED <<built, printed, player_name, season, player_search, player_id, pitch_data,
                 detailed_splits, summary, result, okKeys, docs, career,
                 all_players, written, now, runsLeft, prev>>

----------------------------------------------------------------------------
(* get_pitch_type_data *)

\* the pitch_type values queried, in order: the codes, then the group names
PitchDataQueries ==
  [i \in 1..Len(InScope(PitchTypeCodes)) |->
     [pitch_type |-> InScope(PitchTypeCodes)[i],
      key |-> <<InScope(PitchTypeCodes)[i]>>, min |-> MinAtBats]]
  \o [i \in 1..Len(PitchDataGroups) |->
     [pitch_type |-> PitchDataGroups[i][1],
      key |-> <<"GROUP", PitchDataGroups[i][1]>>, min |-> GroupMinAtBats]]

FetchPitchType ==
  /\ pc = "pitch"
  /\ \E resp \in Allowed("pitch") :
       LET q == PitchDataQueries[pos.i]
           params == <<<<"pitch_type", q.pitch_type>>>>
           data == get_combined_split_data(params, resp, now)
       IN /\ Query("pitch", "get_combined_split_data", params, resp)
          /\ pitch_data' = IF EnoughData(data, q.min) THEN DictSet(pitch_data, q.key, data)
                           ELSE pitch_data
  /\ IF pos.i < Len(PitchDataQueries)
     THEN /\ pc' = pc
          /\ pos' = [pos EXCEPT !.i = @ + 1]
          /\ detailed_splits' = detailed_splits
     ELSE /\ pc' = "detailed"
          /\ pos' = [i |-> 1, h |-> 0, l |-> 0]
          /\ detailed_splits' = [player_id |-> player_id, season |-> season,
                                 lastUpdated |-> now, splits |-> EmptyDict]
  /\ UNCHANGED <<built, printed, player_name, season, player_search, player_id, basic_splits,
                 summary, result, okKeys, docs, career, all_players, written, now,
                 runsLeft, prev>>

----------------------------------------------------------------------------
(* get_detailed_pitch_splits: the gated expansion *)

ScopedPitches == InScope(pitch_types)

\* the combination the loops are at: h = 0 is the pitch overall, l = 0 the
\* pitch by handedness
DetailedParams(p) ==
  <<<<"pitch_type", ScopedPitches[p.i]>>>>
  \o (IF p.h > 0 THEN <<<<"pitcher_throws", pitcher_hands[p.h]>>>> ELSE << >>)
  \o (IF p.l > 0 THEN <<<<"home_road", locations[p.l]>>>> ELSE << >>)

PitchKey(pitch) == <<"pitch", pitch>>
HandKey(pitch, hand) == <<"pitch", pitch, "hand", hand>>
LocKey(pitch, hand, location) == <<"pitch", pitch, "hand", hand, "loc", location>>
\* GroupKey filing a group under the key of its first pitch type
GroupKeyOfFirstPitch(group_name, hand) ==
  HandKey(DictGet(pitch_groups, group_name)[1], hand)

GroupKey(group_name, hand) == <<"group", group_name, "hand", hand>>

\* the dict key the f-string builds: the parts joined by "_"
RECURSIVE KeyString(_)
KeyString(key) ==
  IF Len(key) = 1 THEN Head(key) ELSE Head(key) \o "_" \o KeyString(Tail(key))

DetailedKey(p) ==
  IF p.h = 0 THEN PitchKey(ScopedPitches[p.i])
  ELSE IF p.l = 0 THEN HandKey(ScopedPitches[p.i], pitcher_hands[p.h])
  ELSE LocKey(ScopedPitches[p.i], pitcher_hands[p.h], locations[p.l])

NextHand(p) ==
  IF p.h < Len(pitcher_hands) THEN [i |-> p.i, h |-> p.h + 1, l |-> 0]
  ELSE [i |-> p.i + 1, h |-> 0, l |-> 0]

\* NextCombination without the gates: every deeper combination is fetched
NextCombinationUngated(p, stored) ==
  IF p.h = 0 THEN [i |-> p.i, h |-> 1, l |-> 0]
  ELSE IF p.l = 0 THEN [i |-> p.i, h |-> p.h, l |-> 1]
  ELSE IF p.l < Len(locations) THEN [p EXCEPT !.l = @ + 1]
  ELSE NextHand(p)

\* where the nested loops go after the combination at p was stored or not
NextCombination(p, stored) ==
  IF p.h = 0
  THEN IF stored THEN [i |-> p.i, h |-> 1, l |-> 0] ELSE [i |-> p.i + 1, h |-> 0, l |-> 0]
  ELSE IF p.l = 0
  THEN IF stored THEN [i |-> p.i, h |-> p.h, l |-> 1] ELSE NextHand(p)
  ELSE IF p.l < Len(locations) THEN [p EXCEPT !.l = @ + 1]
  ELSE NextHand(p)

FetchDetailed ==
  /\ pc = "detailed"
  /\ pos.i <= Len(ScopedPitches)
  /\ \E resp \in Allowed("detail") :
       LET params == DetailedParams(pos)
           data == get_combined_split_data(params, resp, now)
           stored == EnoughData(data, MinAtBats)
           next == NextCombination(pos, stored)
       IN /\ Query("detail", "get_combined_split_data", params, resp)
          /\ detailed_splits' =
               IF stored
               THEN [detailed_splits EXCEPT
                       !.splits = DictSet(@, DetailedKey(pos), data)]
               ELSE detailed_splits
          /\ okKeys' = IF SentAtBats(resp) >= 5 THEN okKeys \cup {DetailedKey(pos)}
                       ELSE okKeys
          /\ pos' = next
          /\ pc' = IF next.i > Len(ScopedPitches) THEN "groups" ELSE pc
  /\ UNCHANGED <<built, printed, player_name, season, player_search, player_id, basic_splits,
                 pitch_data, summary, result, docs, career, all_players, written,
                 now, runsLeft, prev>>

----------------------------------------------------------------------------
(* get_detailed_pitch_splits: the group rollups *)

\* Python's round(x / n, 3) of x thousandths: the nearest thousandth, an
\* exact half going to the even one
RoundDiv(x, n) ==
  LET q == x \div n
      r == x % n
  IN IF 2 * r < n THEN q
     ELSE IF 2 * r > n THEN q + 1
     ELSE IF q % 2 = 0 THEN q ELSE q + 1

\* hand_data: the stored pitch_X_hand_H records of the group's pitches
RECURSIVE HandData(_, _, _)
HandData(splits, group_pitches, hand) ==
  IF group_pitches = << >> THEN << >>
  ELSE (IF DictHas(splits, HandKey(Head(group_pitches), hand))
        THEN <<DictGet(splits, HandKey(Head(group_pitches), hand))>>
        ELSE << >>) \o HandData(splits, Tail(group_pitches), hand)

\* sum(float(d[f]) for d in hand_data if d[f] != 'N/A')
RateSum(hand_data, f) ==
  SumSeq([i \in 1..Len(hand_data) |->
            IF hand_data[i][f] # NA THEN ParseFloat(hand_data[i][f]) ELSE 0])

GroupRollup(group_name, hand, hand_data, t) ==
  [split_name |-> <<group_name \o " pitches vs " \o hand \o "HP">>,
   avg |-> Str(RoundDiv(RateSum(hand_data, "avg"), Len(hand_data))),
   ops |-> Str(RoundDiv(RateSum(hand_data, "ops"), Len(hand_data))),
   atBats |-> SumSeq([i \in 1..Len(hand_data) |-> hand_data[i].atBats]),
   homeRuns |-> SumSeq([i \in 1..Len(hand_data) |-> hand_data[i].homeRuns]),
   lastUpdated |-> t]

\* WithGroup moving the members' records into the rollup
WithGroupReplacingMembers(splits, group, hand, t) ==
  LET hand_data == HandData(splits, group[2], hand)
      rest == SelectSeq(splits, LAMBDA kv :
                \A x \in 1..Len(group[2]) : kv[1] # HandKey(group[2][x], hand))
  IN IF hand_data # << >>
     THEN Append(rest, <<GroupKey(group[1], hand),
                         GroupRollup(group[1], hand, hand_data, t)>>)
     ELSE splits

\* one iteration of "for hand in pitcher_hands" for one group
WithGroup(splits, group, hand, t) ==
  LET hand_data == HandData(splits, group[2], hand)
      ab_sum == SumSeq([i \in 1..Len(hand_data) |-> hand_data[i].atBats])
  IN IF hand_data # << >> /\ Len(hand_data) > 0 /\ ab_sum > 0
     THEN DictSet(splits, GroupKey(group[1], hand),
                  GroupRollup(group[1], hand, hand_data, t))
     ELSE splits

\* the pairs (group, hand) in the order of the two loops
GroupHandPairs ==
  [k \in 1..(Len(pitch_groups) * Len(pitcher_hands)) |->
     <<pitch_groups[((k - 1) \div Len(pitcher_hands)) + 1],
       pitcher_hands[((k - 1) % Len(pitcher_hands)) + 1]>>]

RECURSIVE WithGroups(_, _, _)
WithGroups(splits, pairs, t) ==
  IF pairs = << >> THEN splits
  ELSE WithGroups(WithGroup(splits, Head(pairs)[1], Head(pairs)[2], t), Tail(pairs), t)

ComputeGroups ==
  /\ pc = "groups"
  /\ detailed_splits' =
       [detailed_splits EXCEPT !.splits = WithGroups(@, GroupHandPairs, now)]
  /\ pc' = "summary"
  /\ UNCHANGED <<built, printed, player_name, season, player_search, player_id, pos, basic_splits,
                 pitch_data, summary, result, calls, failed, okKeys, docs, career,
                 all_players, written, now, env, runsLeft, prev>>

----------------------------------------------------------------------------
(* generate_performance_summary *)

SummaryEntry(data) ==
  [avg |-> data.avg, ops |-> data.ops, hr |-> data.homeRuns, ab |-> data.atBats]

NamedEntry(name, data) ==
  [name |-> name, avg |-> data.avg, ops |-> data.ops, hr |-> data.homeRuns,
   ab |-> data.atBats]

\* overall, then vs LHP / vs RHP, then Home / Away, each if present
BasicSummaryKeys == <<"overall", "vs LHP", "vs RHP", "Home", "Away">>

RECURSIVE BasicSummary(_, _)
BasicSummary(basic, keys) ==
  IF keys = << >> THEN EmptyDict
  ELSE (IF DictHas(basic, Head(keys))
        THEN <<<<Head(keys), SummaryEntry(DictGet(basic, Head(keys)))>>>>
        ELSE << >>) \o BasicSummary(basic, Tail(keys))

\* pitch_code.startswith("GROUP_")
IsGroupCode(pitch_code) == Len(pitch_code) > 1 /\ pitch_code[1] = "GROUP"

\* the two loops over pitch_data.items(): pitch types first, then groups
\* under pitch_code.replace("GROUP_", "")
RECURSIVE PitchTypeSummary(_, _, _)
PitchTypeSummary(acc, items, groups) ==
  IF items = << >> THEN acc
  ELSE LET pitch_code == Head(items)[1]
           data == Head(items)[2]
           key == IF groups THEN Tail(pitch_code) ELSE pitch_code
       IN PitchTypeSummary(
            IF IsGroupCode(pitch_code) = groups /\ data.atBats >= SummaryMinAtBats
            THEN DictSet(acc, key, NamedEntry(data.split_name, data))
            ELSE acc,
            Tail(items), groups)

\* key.startswith("group_")
IsGroupKey(key) == Len(key) > 1 /\ key[1] = "group"

\* the candidates appended by the loop over detailed_splits.items()
RECURSIVE NotableCandidates(_)
NotableCandidates(items) ==
  IF items = << >> THEN << >>
  ELSE LET key == Head(items)[1]
           data == Head(items)[2]
       IN (IF data.atBats >= NotableMinAtBats /\ data.avg # NA /\ ~IsGroupKey(key)
           THEN <<NamedEntry(data.split_name, data)>>
           ELSE << >>) \o NotableCandidates(Tail(items))

\* key=lambda x: float(x["avg"]) if x["avg"] != "N/A" else 0
SortKey(x) == IF x.avg # NA THEN ParseFloat(x.avg) ELSE 0

\* list.sort(key=..., reverse=True): stable, equal keys keep their order
InsertDescending(sorted, x) ==
  LET n == Cardinality({i \in 1..Len(sorted) : SortKey(sorted[i]) >= SortKey(x)})
  IN SubSeq(sorted, 1, n) \o <<x>> \o SubSeq(sorted, n + 1, Len(sorted))

RECURSIVE SortDescending(_, _)
SortDescending(sorted, rest) ==
  IF rest = << >> THEN sorted
  ELSE SortDescending(InsertDescending(sorted, Head(rest)), Tail(rest))

\* TopSlice without the slice: the whole sorted list
TopSliceWhole(list) == list

\* notable_splits[:5]
TopSlice(list) == SubSeq(list, 1, IF Len(list) < TopN THEN Len(list) ELSE TopN)

NotableSplits(splits) == TopSlice(SortDescending(<< >>, NotableCandidates(splits)))

generate_performance_summary(name, id, s, basic, pitch, detailed) ==
  [player |-> [name |-> name, id |-> id],
   season |-> s,
   basic_splits |-> BasicSummary(basic, BasicSummaryKeys),
   pitch_type_summary |->
     PitchTypeSummary(PitchTypeSummary(EmptyDict, pitch, FALSE), pitch, TRUE),
   handedness_summary |-> EmptyDict,
   location_summary |-> EmptyDict,
   notable_splits |-> NotableSplits(detailed.splits)]

GenerateSummary ==
  /\ pc = "summary"
  /\ summary' = generate_performance_summary(player_name, player_id, season,
                                             basic_splits, pitch_data, detailed_splits)
  /\ pc' = "print"
  /\ UNCHANGED <<built, printed, player_name, season, player_search, player_id, pos, basic_splits,
                 pitch_data, detailed_splits, result, calls, failed, okKeys, docs,
                 career, all_players, written, now, env, runsLeft, prev>>

----------------------------------------------------------------------------
(* print_performance_summary *)

GroupsNotRanked == {<<"Fastball">>, <<"Breaking">>, <<"Offspeed">>}

\* valid_pitches: the summary entries whose average is parsed
ValidPitchIndexes(pts) ==
  {i \in 1..Len(pts) : pts[i][1] \notin GroupsNotRanked
                       /\ pts[i][2].ab >= ValidPitchMinAtBats}

BothIn(d, a, b) == DictHas(d, a) /\ DictHas(d, b)

\* the float() calls of the handedness, location and pitch-type paragraphs:
\* one raises ValueError when its argument is the 'N/A' marker
HandRaises(sm) ==
  /\ BothIn(sm.basic_splits, "vs LHP", "vs RHP")
  /\ ~(CanFloat(DictGet(sm.basic_splits, "vs LHP").avg)
       /\ CanFloat(DictGet(sm.basic_splits, "vs RHP").avg))

LocRaises(sm) ==
  /\ BothIn(sm.basic_splits, "Home", "Away")
  /\ ~(CanFloat(DictGet(sm.basic_splits, "Home").avg)
       /\ CanFloat(DictGet(sm.basic_splits, "Away").avg))

PitchRaises(sm) ==
  \E i \in ValidPitchIndexes(sm.pitch_type_summary) :
    ~CanFloat(sm.pitch_type_summary[i][2].avg)

PrintRaises(sm) == HandRaises(sm) \/ LocRaises(sm) \/ PitchRaises(sm)

\* float(s) - n/1000 for the string s of n thousandths, in units of
\* 1/(1000 * 2^60): the binary64 nearest to the decimal is not the decimal
FloatError(n) ==
  CASE n = 0 -> 0
    [] n = 50 -> 3200
    [] n = 200 -> 12800
    [] n = 250 -> 0
    [] n = 300 -> -12800
    [] n = 500 -> 0

\* abs(float(a) - float(b)) >= 0.050 in binary64; the subtraction of two of
\* the values above is exact, so the test compares the exact difference of
\* the two doubles with the double of 0.050
SignificantlyApart(a, b) ==
  LET hi == IF ParseFloat(a) >= ParseFloat(b) THEN ParseFloat(a) ELSE ParseFloat(b)
      lo == IF ParseFloat(a) >= ParseFloat(b) THEN ParseFloat(b) ELSE ParseFloat(a)
  IN \/ hi - lo > SignificantDiff
     \/ /\ hi - lo = SignificantDiff
        /\ FloatError(hi) - FloatError(lo) >= FloatError(SignificantDiff)

\* the line of a comparison of two basic splits: first if a is the higher
\* average, second otherwise, no line when they are not significantly apart
ComparisonLine(sm, a, b, first, second) ==
  IF BothIn(sm.basic_splits, a, b)
     /\ SignificantlyApart(DictGet(sm.basic_splits, a).avg, DictGet(sm.basic_splits, b).avg)
  THEN IF ParseFloat(DictGet(sm.basic_splits, a).avg)
          > ParseFloat(DictGet(sm.basic_splits, b).avg)
       THEN first ELSE second
  ELSE ""

\* max(valid_pitches.items(), key=...) and min(...): the first entry, in the
\* summary's order, that no entry beats
BestPitch(pts) ==
  LET valid == ValidPitchIndexes(pts)
  IN IF valid = {} THEN << >>
     ELSE pts[CHOOSE i \in valid :
                \A j \in valid :
                  \/ ParseFloat(pts[j][2].avg) < ParseFloat(pts[i][2].avg)
                  \/ ParseFloat(pts[j][2].avg) = ParseFloat(pts[i][2].avg) /\ i <= j][1]

WorstPitch(pts) ==
  LET valid == ValidPitchIndexes(pts)
  IN IF valid = {} THEN << >>
     ELSE pts[CHOOSE i \in valid :
                \A j \in valid :
                  \/ ParseFloat(pts[j][2].avg) > ParseFloat(pts[i][2].avg)
                  \/ ParseFloat(pts[j][2].avg) = ParseFloat(pts[i][2].avg) /\ i <= j][1]

\* the lines printed up to the end of the function or to the float() that raises
Narrative(sm) ==
  [handedness |-> IF HandRaises(sm) THEN ""
                  ELSE ComparisonLine(sm, "vs LHP", "vs RHP", "Strong vs LHP", "Strong vs RHP"),
   location |-> IF HandRaises(sm) \/ LocRaises(sm) THEN ""
                ELSE ComparisonLine(sm, "Home", "Away", "Home field advantage",
                                    "Performs better on the road"),
   best |-> IF PrintRaises(sm) THEN << >> ELSE BestPitch(sm.pitch_type_summary),
   worst |-> IF PrintRaises(sm) THEN << >> ELSE WorstPitch(sm.pitch_type_summary)]

PrintSummary ==
  /\ pc = "print"
  /\ printed' = Narrative(summary)
  /\ IF PrintRaises(summary)
     THEN pc' = "idle" /\ result' = "ValueError"
     ELSE pc' = "save" /\ result' = result
  /\ pos' = [i |-> 1, h |-> 0, l |-> 0]
  /\ UNCHANGED <<built, player_name, season, player_search, player_id, basic_splits,
                 pitch_data, detailed_splits, summary, calls, failed, okKeys, docs,
                 career, all_players, written, now, env, runsLeft, prev>>

----------------------------------------------------------------------------
(* The files *)

Absent == [tag |-> "absent", data |-> << >>]     \* os.path.exists is False
Corrupt == [tag |-> "corrupt", data |-> << >>]   \* json.load raises on it
Json(data) == [tag |-> "json", data |-> data]    \* what json.dump wrote

\* player_name.replace(' ', '_')
FileStem(name) ==
  CASE name = "Aaron Judge" -> "Aaron_Judge"
    [] name = "Will Smith" -> "Will_Smith"
    [] OTHER -> name
FileStems == {FileStem(n) : n \in PlayerNames}

\* <<directory, all_data key, file name suffix>>, in the order they are saved
Categories ==
  << <<"splits", "basic_splits", "splits">>,
     <<"pitch_data", "pitch_data", "pitch_types">>,
     <<"detailed_splits", "detailed_splits", "detailed">>,
     <<"summaries", "summary", "summary">> >>

DocName(c, name, s) == <<Categories[c][1], FileStem(name), ToString(s), Categories[c][3]>>
DocNames == {DocName(c, n, s) : c \in 1..Len(Categories), n \in PlayerNames, s \in Seasons}
CareerName(name) == <<"splits", FileStem(name), "career">>
AllPlayersName == <<"all_players_career">>

\* all_data[key]
AllData(key) ==
  CASE key = "basic_splits" -> basic_splits
    [] key = "pitch_data" -> pitch_data
    [] key = "detailed_splits" -> detailed_splits
    [] key = "summary" -> summary

\* what "with open(f, 'w'): json.dump(data, f)" can leave behind: the new
\* document, or on an OSError the old file or a truncated one
WriteOutcomes(old, data) ==
  {<<Json(data), 0>>} \cup (IF env.io > 0 THEN {<<old, 1>>, <<Corrupt, 1>>} ELSE {})

\* what "if os.path.exists(f): try: json.load(f)" yields: the document, or
\* the empty dict of the initialisation when there is no file or the load raises
ReadOutcomes(file) ==
  IF file.tag = "json"
  THEN {<<file.data, 0>>} \cup (IF env.io > 0 THEN {<<EmptyDict, 1>>} ELSE {})
  ELSE {<<EmptyDict, 0>>}

----------------------------------------------------------------------------
(* save_player_detailed_data: the four category documents, each in its own
   try block, then update_career_files *)

\* SaveOutcomes with one try block around the four writes: the first failing
\* write ends them
RECURSIVE SaveOutcomesOneTry(_, _, _, _)
SaveOutcomesOneTry(files, c, failures, opened) ==
  IF c > Len(Categories) THEN {<<files, failures, opened>>}
  ELSE LET f == DocName(c, player_name, season)
       IN UNION {IF w[2] > 0
                 THEN {<<[files EXCEPT ![f] = w[1]], failures + w[2], Append(opened, f)>>}
                 ELSE SaveOutcomesOneTry([files EXCEPT ![f] = w[1]], c + 1, failures,
                                         Append(opened, f)) :
                   w \in WriteOutcomes(files[f], AllData(Categories[c][2]))}

\* the outcomes of the four writes, as <<files, failures, files opened>>
RECURSIVE SaveOutcomes(_, _, _, _)
SaveOutcomes(files, c, failures, opened) ==
  IF c > Len(Categories) THEN {<<files, failures, opened>>}
  ELSE LET f == DocName(c, player_name, season)
       IN UNION {SaveOutcomes([files EXCEPT ![f] = w[1]], c + 1, failures + w[2],
                              Append(opened, f)) :
                   w \in WriteOutcomes(files[f], AllData(Categories[c][2]))}

\* SaveDocuments followed by a second pass over the detailed splits
SaveDocumentsThenRefetch ==
  /\ pc = "save"
  /\ \E o \in SaveOutcomes(docs, 1, 0, << >>) :
       /\ o[2] <= env.io
       /\ docs' = o[1]
       /\ env' = [env EXCEPT !.io = @ - o[2]]
       /\ written' = written \o o[3]
  /\ pc' = "detailed"
  /\ pos' = [i |-> 1, h |-> 0, l |-> 0]
  /\ UNCHANGED <<built, printed, player_name, season, player_search, player_id, basic_splits,
                 pitch_data, detailed_splits, summary, result, calls, failed,
                 okKeys, career, all_players, now, runsLeft, prev>>

SaveDocuments ==
  /\ pc = "save"
  /\ \E o \in SaveOutcomes(docs, 1, 0, << >>) :
       /\ o[2] <= env.io
       /\ docs' = o[1]
       /\ env' = [env EXCEPT !.io = @ - o[2]]
       /\ written' = written \o o[3]
  /\ pc' = "career"
  /\ UNCHANGED <<built, printed, player_name, season, player_search, player_id, pos, basic_splits,
                 pitch_data, detailed_splits, summary, result, calls, failed,
                 okKeys, career, all_players, now, runsLeft, prev>>

----------------------------------------------------------------------------
(* update_career_files *)

\* the per-player career document after the merge
MergedCareer(career_data, name, id, s, basic, t) ==
  LET d1 == IF DictHas(career_data, "player") THEN career_data
            ELSE DictSet(career_data, "player", [name |-> name, id |-> id])
      d2 == IF DictHas(d1, "seasons") THEN d1 ELSE DictSet(d1, "seasons", EmptyDict)
      d3 == DictSet(d2, "seasons", DictSet(DictGet(d2, "seasons"), ToString(s), basic))
  IN DictSet(d3, "lastUpdated", t)

\* the all-players document after the merge
MergedAllPlayers(all_players_data, name, id, s, sm, t) ==
  LET d1 == IF DictHas(all_players_data, name) THEN all_players_data
            ELSE DictSet(all_players_data, name,
                         << <<"player", [name |-> name, id |-> id]>>,
                            <<"seasons", EmptyDict>> >>)
      p1 == DictGet(d1, name)
      p2 == DictSet(p1, "seasons", DictSet(DictGet(p1, "seasons"), ToString(s), sm))
  IN DictSet(d1, name, DictSet(p2, "lastUpdated", t))

\* read, merge and write of one cumulative file, as <<file, failures>>
Rewritten(file, Merge(_)) ==
  UNION {{<<w[1], r[2] + w[2]>> : w \in WriteOutcomes(file, Merge(r[1]))} :
           r \in ReadOutcomes(file)}

UpdateCareerFiles ==
  /\ pc = "career"
  /\ LET f == FileStem(player_name)
         MergeCareer(d) == MergedCareer(d, player_name, player_id, season,
                                        basic_splits, now)
         MergeAll(d) == MergedAllPlayers(d, player_name, player_id, season,
                                         summary, now)
     IN \E c \in Rewritten(career[f], MergeCareer), a \in Rewritten(all_players, MergeAll) :
          /\ c[2] + a[2] <= env.io
          /\ career' = [career EXCEPT ![f] = c[1]]
          /\ all_players' = a[1]
          /\ env' = [env EXCEPT !.io = @ - (c[2] + a[2])]
  /\ written' = written \o <<CareerName(player_name), AllPlayersName>>
  /\ pc' = "idle"
  /\ result' = "all_data"
  /\ UNCHANGED <<built, printed, player_name, season, player_search, player_id, pos, basic_splits,
                 pitch_data, detailed_splits, summary, calls, failed, okKeys, docs,
                 now, runsLeft, prev>>

----------------------------------------------------------------------------
(* The clock, and the specification *)

\* time passes between two runs of the program
Tick ==
  /\ pc = "idle"
  /\ now < MaxClock
  /\ now' = now + 1
  /\ UNCHANGED <<built, printed, pc, player_name, season, player_search, player_id, pos,
                 basic_splits, pitch_data, detailed_splits, summary, result, calls,
                 failed, okKeys, docs, career, all_players, written, env,
                 runsLeft, prev>>

NoRun == [player_name |-> "", season |-> 0, result |-> "", basic_splits |-> EmptyDict,
          career |-> [f \in FileStems |-> Absent]]

\* the state before the first run, in a fresh working directory
\* nothing has run and nothing is on disk
Unstarted ==
  /\ pc = "idle"
  /\ player_name = ""
  /\ season = 0
  /\ player_search = << >>
  /\ player_id = NoId
  /\ pos = [i |-> 1, h |-> 0, l |-> 0]
  /\ basic_splits = EmptyDict
  /\ pitch_data = EmptyDict
  /\ detailed_splits = NoReport
  /\ summary = None
  /\ printed = NothingPrinted
  /\ result = ""
  /\ calls = << >>
  /\ failed = 0
  /\ okKeys = {}
  /\ docs = [f \in DocNames |-> Absent]
  /\ career = [f \in FileStems |-> Absent]
  /\ all_players = Absent
  /\ written = << >>
  /\ now = 0
  /\ prev = NoRun

Fresh == Unstarted /\ built = NotBuilt

Next ==
  \/ GetPlayerId
  \/ FetchBasic
  \/ FetchPitchType
  \/ FetchDetailed
  \/ ComputeGroups
  \/ GenerateSummary
  \/ PrintSummary
  \/ SaveDocuments
  \/ UpdateCareerFiles
  \/ Tick

----------------------------------------------------------------------------
(* Specifications: the same program under differently bounded environments *)

Environment(names, seasons, scope, pool, table, stages, rows, fails, io) ==
  [names |-> names, seasons |-> seasons, scope |-> scope, pool |-> pool,
   table |-> table, stages |-> stages, rows |-> rows, fails |-> fails, io |-> io]

Stages == {"basic", "pitch", "detail"}

\* One run for one player: rows in every stage, one failed call
PipelineRows == 3
PipelineFailures == 1

Init ==
  /\ Fresh
  /\ runsLeft = 1
  /\ env = Environment({"Aaron Judge"}, {2024}, {"FF"},
                       {EmptyCsv, Http404, Raises, RowLow, RowB, RowNoBa}, << >>,
                       Stages, PipelineRows, PipelineFailures, 0)

Spec == Init /\ [][Next]_vars

\* The aggregation: two Breaking pitch types, rows for the detailed queries only
DetailRows == 4

InitDetail ==
  /\ Fresh
  /\ runsLeft = 1
  /\ env = Environment({"Aaron Judge"}, {2024}, {"CU", "SL"},
                       {EmptyCsv, RowLow, RowA, RowB, RowNoBa}, << >>,
                       {"detail"}, DetailRows, 0, 0)

SpecDetail == InitDetail /\ [][Next]_vars

\* The summary: one pitch type with a row for each of its seven combinations
NotableRows == 7

InitNotable ==
  /\ Fresh
  /\ runsLeft = 1
  /\ env = Environment({"Aaron Judge"}, {2024}, {"CU"},
                       {EmptyCsv, RowA, RowB, RowNoBa}, << >>,
                       {"detail"}, NotableRows, 0, 0)

SpecNotable == InitNotable /\ [][Next]_vars

\* a curveball whose records can lack the average or carry an average of 0.0
TieRows == 3

InitTies ==
  /\ Fresh
  /\ runsLeft = 1
  /\ env = Environment({"Aaron Judge"}, {2024}, {"CU"},
                       {EmptyCsv, RowA, RowNoBa, RowHitless}, << >>,
                       {"detail"}, TieRows, 0, 0)

SpecTies == InitTies /\ [][Next]_vars

\* The lookup: a unique name, an ambiguous one, an unknown one
LookupRuns == 2
LookupRows == 1

InitLookup ==
  /\ Fresh
  /\ runsLeft = LookupRuns
  /\ env = Environment(PlayerNames, {2024}, {"FF"}, {EmptyCsv, RowA}, << >>,
                       {"basic"}, LookupRows, 0, 0)

SpecLookup == InitLookup /\ [][Next]_vars

\* The career files: one player, two seasons, a remote that answers every run
\* the same way, file operations that may fail
CareerRuns == 2
CareerRows == 1
CareerIoFailures == 1

CareerTables ==
  {t \in [1..Len(BasicCalls) -> {EmptyCsv, RowA, RowB}] :
     Cardinality({i \in 1..Len(BasicCalls) : t[i] # EmptyCsv}) <= CareerRows}

InitCareer ==
  /\ Fresh
  /\ runsLeft = CareerRuns
  /\ \E t \in CareerTables :
       env = Environment({"Aaron Judge"}, Seasons, {"FF"}, {}, t, {}, 0, 0,
                         CareerIoFailures)

SpecCareer == InitCareer /\ [][Next]_vars

\* Persistence: two runs for one player and season, the remote answering
\* one basic query with a row, file operations that may fail
SaveRuns == 2
SaveIoFailures == 2

SaveTable == [i \in 1..Len(BasicCalls) |-> IF i = 2 THEN RowA ELSE EmptyCsv]

InitSave ==
  /\ Fresh
  /\ runsLeft = SaveRuns
  /\ env = Environment({"Aaron Judge"}, {2024}, {"FF"}, {}, SaveTable, {}, 0, 0,
                       SaveIoFailures)

SpecSave == InitSave /\ [][Next]_vars

\* The fetchers: one run whose overall query, vs-RHP query and four-seam
\* query are answered by every kind of response
FetchPool == {EmptyCsv, Http404, Raises, RowA, RowNoBa, RowNoAbs, RowZero, RowLow}
OverallQuery == 1
HandQuery == 2
PitchQuery == Len(BasicCalls) + 1

FetchTables ==
  {t \in [1..PitchQuery -> FetchPool] :
     \A i \in 1..PitchQuery : i \notin {OverallQuery, HandQuery, PitchQuery} => t[i] = EmptyCsv}

InitFetch ==
  /\ Fresh
  /\ runsLeft = 1
  /\ \E t \in FetchTables :
       env = Environment({"Aaron Judge"}, {2024}, {"FF"}, {}, t, {}, 0, 0, 0)

SpecFetch == InitFetch /\ [][Next]_vars

\* The rollups of thin data: one Breaking pitch type seen for few at-bats
RollupRows == 2

InitRollup ==
  /\ Fresh
  /\ runsLeft = 1
  /\ env = Environment({"Aaron Judge"}, {2024}, {"CU"}, {EmptyCsv, RowFive, RowA}, << >>,
                       {"detail"}, RollupRows, 0, 0)

SpecRollup == InitRollup /\ [][Next]_vars

\* a slider, which is in the Breaking group, and an eephus, which is in no group
GroupRows == 4

InitGroups ==
  /\ Fresh
  /\ runsLeft = 1
  /\ env = Environment({"Aaron Judge"}, {2024}, {"SL", "EP"}, {EmptyCsv, RowFive, RowNoBa}, << >>,
                       {"detail"}, GroupRows, 0, 0)

SpecGroups == InitGroups /\ [][Next]_vars

\* The narrative: one run whose four handedness and location queries are
\* answered with averages .250, .300, .500 or no data
PrintPool == {EmptyCsv, RowA, RowB, RowLow}

PrintTables ==
  {t \in [1..Len(BasicCalls) -> PrintPool] : t[OverallQuery] = EmptyCsv}

InitPrint ==
  /\ Fresh
  /\ runsLeft = 1
  /\ \E t \in PrintTables :
       env = Environment({"Aaron Judge"}, {2024}, {"FF"}, {}, t, {}, 0, 0, 0)

SpecPrint == InitPrint /\ [][Next]_vars

\* get_combined_split_data called with any dict of up to three dimensions,
\* in any insertion order; "XX" is a pitch code without a display name
ParamPairs ==
  {<<"home_road", v>> : v \in {"Home", "Road"}}
  \cup {<<"pitcher_throws", v>> : v \in {"L", "R"}}
  \cup {<<"pitch_type", v>> : v \in {"FF", "CU", "XX"}}

MaxParams == 3

ParamMaps ==
  {p \in UNION {[1..n -> ParamPairs] : n \in 0..MaxParams} :
     \A i \in 1..Len(p) : \A j \in 1..Len(p) : i # j => p[i][1] # p[j][1]}

InitCompose ==
  /\ Unstarted
  /\ runsLeft = 0
  /\ env = Environment({}, {}, {}, {}, << >>, {}, 0, 0, 0)
  /\ \E p \in ParamMaps : built = [NotBuilt EXCEPT !.params = p]

SpecCompose == InitCompose /\ [][ComposeSplit]_vars

----------------------------------------------------------------------------
(* Properties of the gated expansion and of the rollups, under SpecDetail *)

\* the queries of get_detailed_pitch_splits among the run's queries
DetailedCalls ==
  SubSeq(calls, Len(BasicCalls) + Len(PitchDataQueries) + 1, Len(calls))

Splits == detailed_splits.splits
NonGroupKeys == {k \in DictKeys(Splits) : ~IsGroupKey(k)}

\* C2: at every point during and after get_detailed_pitch_splits, every key
\* pitch_X, pitch_X_hand_H or pitch_X_hand_H_loc_L of the report was stored
\* from a fetch whose atBats was at least 5, and its record has at least 5
\* at-bats; a fetch with no data or fewer at-bats produces no key.
C2_KeysFromQualifyingFetches ==
  /\ NonGroupKeys \subseteq okKeys
  /\ \A i \in 1..Len(Splits) :
       ~IsGroupKey(Splits[i][1]) => Splits[i][2].atBats >= 5

\* the stage is over, a key was stored, and a fetch produced no key
C2_Witness ==
  /\ pc = "groups"
  /\ NonGroupKeys # {}
  /\ Len(DetailedCalls) > Cardinality(NonGroupKeys)

\* the query with these parameters was issued before the j-th one of dc
IssuedBefore(dc, params, j) == \E i \in 1..(j - 1) : dc[i].params = params

\* C9: a fetch for (pitch X, hand H) is issued only after the overall fetch
\* for X returned atBats >= 5, a fetch for (X, H, location L) only after the
\* fetch for (X, H) returned atBats >= 5; the stored keys are prefix-closed.
C9_GatedAndPrefixClosed ==
  LET dc == DetailedCalls
      keys == NonGroupKeys
  IN /\ \A j \in 1..Len(dc) :
          LET q == dc[j].params
          IN /\ Len(q) = 2 =>
                  /\ IssuedBefore(dc, SubSeq(q, 1, 1), j)
                  /\ PitchKey(q[1][2]) \in okKeys
             /\ Len(q) = 3 =>
                  /\ IssuedBefore(dc, SubSeq(q, 1, 2), j)
                  /\ HandKey(q[1][2], q[2][2]) \in okKeys
     /\ \A k \in keys :
          /\ Len(k) = 6 => SubSeq(k, 1, 4) \in keys
          /\ Len(k) = 4 => SubSeq(k, 1, 2) \in keys

\* one pitch was expanded down to a location, the other stopped at its gate
C9_Witness ==
  /\ pc = "groups"
  /\ LocKey("CU", "L", "Home") \in NonGroupKeys
  /\ PitchKey("SL") \notin NonGroupKeys
  /\ Len(DetailedCalls) > 1

\* the stored group rollups, as <<group, hand, record, constituents>>
StoredRollups ==
  {<<GroupHandPairs[k][1][1], GroupHandPairs[k][2],
     DictGet(Splits, GroupKey(GroupHandPairs[k][1][1], GroupHandPairs[k][2])),
     HandData(Splits, GroupHandPairs[k][1][2], GroupHandPairs[k][2])>> :
     k \in {n \in 1..Len(GroupHandPairs) :
              DictHas(Splits, GroupKey(GroupHandPairs[n][1][1], GroupHandPairs[n][2]))}}

\* the constituents whose rate f is a number
Parsed(hand_data, f) == SelectSeq(hand_data, LAMBDA d : d[f] # NA)

\* m is the mean of the numbers of rate f, to the nearest thousandth
IsMeanOf(m, hand_data, f) ==
  LET ps == Parsed(hand_data, f)
      total == SumSeq([i \in 1..Len(ps) |-> ParseFloat(ps[i][f])])
      d == ParseFloat(m) * Len(ps) - total
  IN ps # << >> => CanFloat(m) /\ 2 * d <= Len(ps) /\ -2 * d <= Len(ps)

\* C3: a stored rollup's avg and ops are the arithmetic means of the avg and
\* ops of its constituent pitch_X_hand_H records, its atBats and homeRuns
\* their sums, also when a constituent's avg or ops is the 'N/A' marker.
C3_RollupIsMeanAndSum ==
  \A r \in StoredRollups :
    /\ IsMeanOf(r[3].avg, r[4], "avg")
    /\ IsMeanOf(r[3].ops, r[4], "ops")
    /\ r[3].atBats = SumSeq([i \in 1..Len(r[4]) |-> r[4][i].atBats])
    /\ r[3].homeRuns = SumSeq([i \in 1..Len(r[4]) |-> r[4][i].homeRuns])

----------------------------------------------------------------------------
(* Properties of the summary, under SpecNotable *)

\* C1: for every detailed report passed to generate_performance_summary the
\* notable_splits list has at most 5 entries and is ordered by parsed batting
\* average, non-increasing.
C1_NotableAtMostFiveDescending ==
  summary # None =>
    LET ns == summary.notable_splits
    IN /\ Len(ns) <= 5
       /\ \A i \in 1..Len(ns) : CanFloat(ns[i].avg)
       /\ \A i \in 1..(Len(ns) - 1) : ParseFloat(ns[i].avg) >= ParseFloat(ns[i + 1].avg)

\* more than five candidates, found in an order that is not the sorted one,
\* and the summary was generated from them
C1_Witness ==
  /\ summary # None
  /\ LET cs == NotableCandidates(Splits)
     IN /\ Len(cs) > 5
        /\ \E i \in 1..(Len(cs) - 1) : ParseFloat(cs[i].avg) < ParseFloat(cs[i + 1].avg)
  /\ \E i \in 1..Len(summary.notable_splits) :
       summary.notable_splits[i].avg # summary.notable_splits[1].avg

----------------------------------------------------------------------------
(* Properties of the fetchers and of the whole run, under Spec *)

\* the records the two fetchers returned and the run stored
FetchedRecords ==
  {basic_splits[i][2] : i \in 1..Len(basic_splits)}
  \cup {pitch_data[i][2] : i \in 1..Len(pitch_data)}
  \cup {Splits[i][2] : i \in {n \in 1..Len(Splits) : ~IsGroupKey(Splits[n][1])}}

\* C6: every record returned by get_baseball_savant_data or
\* get_combined_split_data and stored in the basic splits, the pitch data or
\* the detailed report, whose obp and slg are both present, has ops equal to
\* obp + slg of that same row.
C6_OpsIsObpPlusSlg ==
  \A r \in FetchedRecords :
    (r.obp # NA /\ r.slg # NA) =>
      r.ops = Str(ParseFloat(r.obp) + ParseFloat(r.slg))

\* each of the three stores holds a record of a row whose upstream ops column
\* differs from obp + slg
C6_Witness ==
  /\ \E i \in 1..Len(basic_splits) : basic_splits[i][2].ops = Str(RowB.obp + RowB.slg)
  /\ \E i \in 1..Len(pitch_data) : pitch_data[i][2].ops = Str(RowB.obp + RowB.slg)
  /\ \E i \in 1..Len(Splits) : Splits[i][2].ops = Str(RowB.obp + RowB.slg)
  /\ RowB.ops # RowB.obp + RowB.slg

\* a run that got past the lookup has ended
RunEnded == pc = "idle" /\ result \in {"all_data", "ValueError"}

\* C4: when the fetch for a combination fails (non-success status or
\* transport exception), the run still issues the queries that follow it,
\* the failed fetch stores no key, and the run goes on to the summary and to
\* persistence: it returns its data having written the four category
\* documents and the two career files.
C4_FailedFetchDoesNotAbort ==
  (RunEnded /\ failed > 0) =>
    /\ Len(calls) >= Len(BasicCalls) + Len(PitchDataQueries) + Len(ScopedPitches)
    /\ NonGroupKeys \subseteq okKeys
    /\ summary # None
    /\ result = "all_data"
    /\ Len(written) = Len(Categories) + 2

----------------------------------------------------------------------------
(* Properties of the lookup, under SpecLookup *)

\* C7: when the directory lookup yields no match, get_complete_player_data
\* aborts: it returns None, issues no stats fetch and writes or modifies no
\* category document, career document or all-players document.
C7_NoMatchAborts ==
  /\ [][(runsLeft' < runsLeft /\ player_search' = << >>) =>
          /\ pc' = "idle" /\ result' = "None"
          /\ calls' = << >> /\ written' = << >>
          /\ docs' = docs /\ career' = career /\ all_players' = all_players]_vars
  /\ [](player_search = << >> => pc = "idle" /\ calls = << >> /\ written = << >>)

\* an unknown name was looked up after a run that had written its files
C7_Witness ==
  /\ player_name = "Nobody"
  /\ result = "None"
  /\ prev.result = "all_data"
  /\ career[FileStem(prev.player_name)] # Absent

\* C8: when the lookup yields more than one match, no candidate is picked as
\* the player, no stats are fetched and no file is written for any of them.
C8_AmbiguousTakesNoAction ==
  Len(player_search) > 1 =>
    /\ player_id \notin {player_search[i].id : i \in 1..Len(player_search)}
    /\ calls = << >>
    /\ written = << >>

----------------------------------------------------------------------------
(* Properties of the career file, under SpecCareer *)

CareerFile == career[FileStem(player_name)]
CareerBefore == prev.career[FileStem(player_name)]
SeasonsOf(file) == DictGet(file.data, "seasons")

\* a run has returned its data and the career file is a document, as it was
\* when the run started
UpdatedExisting ==
  /\ pc = "idle" /\ result = "all_data"
  /\ CareerBefore.tag = "json" /\ CareerFile.tag = "json"

\* C5: a second run for the same player and season, with identical remote
\* responses and no failing file operation, leaves the season's entry of the
\* career file equal to the entry after the first run and the set of season
\* keys unchanged.
C5_SecondRunLeavesEntryEqual ==
  (/\ UpdatedExisting
   /\ prev.result = "all_data" /\ prev.player_name = player_name /\ prev.season = season
   /\ env.io = CareerIoFailures
   /\ DictHas(SeasonsOf(CareerBefore), ToString(season))) =>
    /\ DictGet(SeasonsOf(CareerFile), ToString(season))
         = DictGet(SeasonsOf(CareerBefore), ToString(season))
    /\ DictKeys(SeasonsOf(CareerFile)) = DictKeys(SeasonsOf(CareerBefore))

\* C10: an update for season S keeps every other season's entry of the career
\* document as it was, also when reading the existing career file fails.
C10_OtherSeasonsKept ==
  UpdatedExisting =>
    \A k \in DictKeys(SeasonsOf(CareerBefore)) \ {ToString(season)} :
      /\ DictHas(SeasonsOf(CareerFile), k)
      /\ DictGet(SeasonsOf(CareerFile), k) = DictGet(SeasonsOf(CareerBefore), k)

----------------------------------------------------------------------------
(* Properties of persistence, under SpecSave *)

RunDocs == [c \in 1..Len(Categories) |-> DocName(c, player_name, season)]

\* what a write of data over the file old can leave
AfterWrite(old, data) == {Json(data), old, Corrupt}

\* C11: a failure while writing one of the four category documents or one of
\* the two cumulative stores does not prevent the attempt to write each of
\* the remaining documents, and does not undo or alter a document already
\* written in the run.
C11_WriteFailureIsLocal ==
  /\ [][(pc = "save" /\ pc' # pc) =>
          /\ pc' = "career"
          /\ written' = written \o RunDocs
          /\ \A c \in 1..Len(Categories) :
               docs'[RunDocs[c]] \in AfterWrite(docs[RunDocs[c]], AllData(Categories[c][2]))
          /\ \A f \in DocNames : (\A c \in 1..Len(Categories) : f # RunDocs[c]) =>
               docs'[f] = docs[f]]_vars
  /\ [][(pc = "career" /\ pc' # pc) =>
          /\ written' = written \o <<CareerName(player_name), AllPlayersName>>
          /\ docs' = docs
          /\ \A f \in FileStems : f # FileStem(player_name) => career'[f] = career[f]
          /\ result' = "all_data"]_vars

\* a run in which the first category write failed, the later ones and the
\* all-players store succeeded, and the career write failed
C11_Witness ==
  /\ pc = "idle" /\ result = "all_data"
  /\ docs[RunDocs[1]] # Json(basic_splits)
  /\ \A c \in 2..Len(Categories) : docs[RunDocs[c]] = Json(AllData(Categories[c][2]))
  /\ career[FileStem(player_name)].tag # "json"
  /\ all_players.tag = "json"
  /\ Len(written) = Len(Categories) + 2

----------------------------------------------------------------------------
(* Properties of the notable splits, under SpecNotable *)

\* the non-group records of the report with at least 10 at-bats
Qualifying == SelectSeq(Splits, LAMBDA kv : ~IsGroupKey(kv[1]) /\ kv[2].atBats >= 10)

\* C12: the candidates for the notable splits are exactly the non-group
\* records with atBats >= 10, a record whose average is 'N/A' included and
\* ranked as 0.0: the list holds the first five of them by average.
C12_PoolIsEveryQualifyingRecord ==
  summary # None =>
    LET ns == summary.notable_splits
        pool == [i \in 1..Len(Qualifying) |->
                   NamedEntry(Qualifying[i][2].split_name, Qualifying[i][2])]
    IN /\ Len(ns) = (IF Len(pool) < 5 THEN Len(pool) ELSE 5)
       /\ \A i \in 1..Len(ns) : \E j \in 1..Len(pool) : ns[i] = pool[j]
       /\ \A j \in 1..Len(pool) :
            (\A i \in 1..Len(ns) : ns[i] # pool[j]) =>
              (Len(ns) = 5 /\ SortKey(pool[j]) <= SortKey(ns[5]))

----------------------------------------------------------------------------
(* Properties of the two fetchers, under SpecFetch *)

\* the run's queries up to and including the one at place i were answered
Answered(i) == Len(calls) >= i

\* the response is a success with at least one row
HasRow(resp) == ~IsFailure(resp) /\ ~resp.empty

\* C13: when the remote answers the unfiltered (overall) query with a
\* successful, non-empty response with all required columns, the basic splits
\* hold an 'overall' entry and so do the summary's basic splits.
C13_OverallIsStored ==
  (Answered(OverallQuery) /\ HasRow(env.table[OverallQuery])
   /\ RequiredColumns \subseteq env.table[OverallQuery].cols) =>
    /\ DictHas(basic_splits, "overall")
    /\ summary # None => DictHas(summary.basic_splits, "overall")

\* the rate field of the record is the column's value, 'N/A' when absent
RateDefault(data, field, resp, col) ==
  data[field] = (IF col \in resp.cols THEN Str(resp[col]) ELSE NA)

\* C14: when a successful, non-empty response lacks a stat column, the
\* fetcher still returns a record, each absent count 0 and each absent rate
\* 'N/A': the vs-RHP record of the basic fetcher and the four-seam record of
\* the combined fetcher are stored with these defaults.
C14_AbsentColumnGetsDefault ==
  /\ (Answered(HandQuery) /\ HasRow(env.table[HandQuery])
      /\ SentAtBats(env.table[HandQuery]) > 0) =>
       /\ DictHas(basic_splits, "vs RHP")
       /\ RateDefault(DictGet(basic_splits, "vs RHP"), "avg", env.table[HandQuery], "ba")
       /\ RateDefault(DictGet(basic_splits, "vs RHP"), "obp", env.table[HandQuery], "obp")
  /\ (Answered(PitchQuery) /\ HasRow(env.table[PitchQuery])
      /\ SentAtBats(env.table[PitchQuery]) >= 5) =>
       /\ DictHas(pitch_data, <<"FF">>)
       /\ RateDefault(DictGet(pitch_data, <<"FF">>), "avg", env.table[PitchQuery], "ba")
       /\ RateDefault(DictGet(pitch_data, <<"FF">>), "obp", env.table[PitchQuery], "obp")

\* C15: get_combined_split_data returns None, and the run goes on, on a
\* non-success status, a response with zero rows, atBats 0 and an exception;
\* it returns a record only when the status is success, there is a row and
\* atBats > 0.  Stated of the call for the four-seam fastball, before and
\* after it.
C15_NoDataIsNone ==
  LET resp == env.table[PitchQuery]
      data == get_combined_split_data(<<<<"pitch_type", "FF">>>>, resp, now)
      nodata == resp.raises \/ resp.status # Ok \/ resp.empty \/ SentAtBats(resp) = 0
  IN /\ (pc = "pitch" /\ pos.i = 1) =>
          /\ nodata => data = None
          /\ data # None => (HasRow(resp) /\ resp.abs > 0 /\ data.atBats > 0)
     /\ (Answered(PitchQuery) /\ nodata) =>
          /\ ~DictHas(pitch_data, <<"FF">>)
          /\ result \in {"running", "all_data"}

\* the request for the four-seam fastball raised and the run went on to its end
C15_Witness ==
  /\ env.table[PitchQuery] = Raises
  /\ failed > 0
  /\ pc = "idle" /\ result = "all_data"

----------------------------------------------------------------------------
(* Properties of the stored rollups, under SpecRollup *)

\* C16: every group rollup stored in the detailed report (keys
\* group_<Category>_hand_<H>) has atBats >= 10; a rollup whose summed atBats
\* is below 10 is not stored.
C16_RollupHasTenAtBats ==
  \A i \in 1..Len(Splits) : IsGroupKey(Splits[i][1]) => Splits[i][2].atBats >= 10

----------------------------------------------------------------------------
(* Properties of the narrative, under Spec and SpecPrint *)

\* print_performance_summary has returned
PrintDone == pc \in {"save", "career"} \/ (pc = "idle" /\ result = "all_data")

\* the entries of individual pitch types with at least 20 at-bats
IndividualPitches(pts) ==
  {i \in 1..Len(pts) :
     /\ \E c \in 1..Len(PitchTypeCodes) : pts[i][1] = <<PitchTypeCodes[c]>>
     /\ pts[i][2].ab >= 20}

\* i is the first of the entries of set with the highest (sign = 1) or
\* lowest (sign = -1) average
FirstExtreme(pts, set, i, sign) ==
  /\ i \in set
  /\ \A j \in set :
       \/ sign * ParseFloat(pts[j][2].avg) < sign * ParseFloat(pts[i][2].avg)
       \/ ParseFloat(pts[j][2].avg) = ParseFloat(pts[i][2].avg) /\ i <= j

\* C17: the best and worst pitch types of the narrative are chosen only among
\* individual pitch types with atBats >= 20, never a group (Fastball,
\* Breaking, Offspeed, Other): the first with the highest average and the
\* first with the lowest.
C17_BestWorstAmongIndividualPitches ==
  PrintDone =>
    LET pts == summary.pitch_type_summary
        ind == IndividualPitches(pts)
    IN IF ind = {} THEN printed.best = << >> /\ printed.worst = << >>
       ELSE /\ \E i \in ind : FirstExtreme(pts, ind, i, 1) /\ printed.best = pts[i][1]
            /\ \E i \in ind : FirstExtreme(pts, ind, i, -1) /\ printed.worst = pts[i][1]

\* the decimal averages of the two splits differ by at least 0.050
DecimalDiffAtLeast(sm, a, b) ==
  LET d == ParseFloat(DictGet(sm.basic_splits, a).avg)
           - ParseFloat(DictGet(sm.basic_splits, b).avg)
  IN d >= 50 \/ -d >= 50

\* the line printed for the two splits is the one the rule gives
LineByRule(sm, line, a, b, first, second) ==
  IF BothIn(sm.basic_splits, a, b) /\ DecimalDiffAtLeast(sm, a, b)
  THEN line = (IF ParseFloat(DictGet(sm.basic_splits, a).avg)
                  > ParseFloat(DictGet(sm.basic_splits, b).avg)
               THEN first ELSE second)
  ELSE line = ""

\* C18: a handedness line is printed if and only if both vs-left and
\* vs-right splits exist and their averages differ by at least 0.050 (exactly
\* 0.050 included), and it names the side with the higher average; the same
\* for home versus away.
C18_LineIffDiffAtLeastFifty ==
  PrintDone =>
    /\ LineByRule(summary, printed.handedness, "vs LHP", "vs RHP",
                  "Strong vs LHP", "Strong vs RHP")
    /\ LineByRule(summary, printed.location, "Home", "Away",
                  "Home field advantage", "Performs better on the road")

----------------------------------------------------------------------------
(* Properties of the keys, under SpecDetail *)

\* every key an individual pitch record can get in the detailed report
AllPitchKeys ==
  {PitchKey(pitch_types[p]) : p \in 1..Len(pitch_types)}
  \cup {HandKey(pitch_types[p], pitcher_hands[h]) :
          p \in 1..Len(pitch_types), h \in 1..Len(pitcher_hands)}
  \cup {LocKey(pitch_types[p], pitcher_hands[h], locations[l]) :
          p \in 1..Len(pitch_types), h \in 1..Len(pitcher_hands), l \in 1..Len(locations)}

\* every key a group record can get in the detailed report
AllGroupKeys ==
  {GroupKey(pitch_groups[g][1], pitcher_hands[h]) :
     g \in 1..Len(pitch_groups), h \in 1..Len(pitcher_hands)}

\* the keys as the strings the dicts are indexed by
AllPitchKeyStrings == {KeyString(k) : k \in AllPitchKeys}

AllGroupKeyStrings == {KeyString(g) : g \in AllGroupKeys}

PitchDataKeyStrings ==
  [i \in 1..Len(PitchDataQueries) |-> KeyString(PitchDataQueries[i].key)]

\* no group key is a pitch key, in the report and in the pitch-data map
\* (the key sets depend on no variable: one evaluation settles it)
KeysNeverCollide ==
  /\ AllPitchKeyStrings \cap AllGroupKeyStrings = {}
  /\ Cardinality(AllPitchKeyStrings) = Cardinality(AllPitchKeys)
  /\ Cardinality(AllGroupKeyStrings) = Cardinality(AllGroupKeys)
  /\ \A i \in 1..Len(PitchDataQueries) :
       \A j \in 1..Len(PitchDataQueries) :
         i # j => PitchDataKeyStrings[i] # PitchDataKeyStrings[j]

\* the records stored so far stay where they are, as they are
RecordsKept ==
  /\ Len(detailed_splits'.splits) >= Len(Splits)
  /\ \A i \in 1..Len(Splits) : detailed_splits'.splits[i] = Splits[i]
  /\ Len(pitch_data') >= Len(pitch_data)
  /\ \A i \in 1..Len(pitch_data) : pitch_data'[i] = pitch_data[i]

\* the keys that read as group keys are the group records' keys
GroupKeysReadAsGroups ==
  \A i \in 1..Len(Splits) :
    IsGroupKey(Splits[i][1]) <=>
      KeyString(Splits[i][1]) \in AllGroupKeyStrings

\* C19: the key under which a group record is stored is never the key of an
\* individual pitch-type record, for all pitch codes, categories, hands and
\* locations, so storing a group record never overwrites an individual pitch
\* record, nor the other way round.
C19_GroupKeysApart ==
  /\ [](GroupKeysReadAsGroups /\ (Fresh => KeysNeverCollide))
  /\ [][(pc \in {"pitch", "detailed", "groups"}) => RecordsKept]_vars

\* a rollup is stored next to the records of two pitch types of its group
C19_Witness ==
  /\ pc = "summary"
  /\ DictHas(Splits, GroupKey("Breaking", "L"))
  /\ DictHas(Splits, HandKey("CU", "L"))
  /\ DictHas(Splits, HandKey("SL", "L"))
  /\ Len(Splits) = 5

----------------------------------------------------------------------------
(* Retries, under SpecFetch *)

\* the answer the i-th remote call of the run got
AnswerTo(i) == IF i \in DOMAIN env.table THEN env.table[i] ELSE EmptyCsv

\* C20: within one run, once the remote call for a dimension combination
\* (same function, player, season and filters) has failed or returned no
\* data, that same query is not issued again.
C20_NoQueryIssuedAgain ==
  \A i \in 1..Len(calls) :
    \A j \in 1..Len(calls) :
      (i < j /\ calls[i] = calls[j]) => HasRow(AnswerTo(i))

----------------------------------------------------------------------------
(* Which rollups the final report holds, under SpecGroups *)

\* get_detailed_pitch_splits has returned its report
ReportFinal == pc \in {"summary", "print", "save", "career"} \/ RunEnded

RollupCategories == {"Fastball", "Breaking", "Offspeed"}

\* C21: in the final report, group_<Category>_hand_<H> is present exactly when
\* some pitch_X_hand_H with X in that category is present, for Fastball,
\* Breaking and Offspeed and both hands; no rollup is stored for a pitch type
\* outside the three categories.
C21_RollupIffMemberPresent ==
  ReportFinal =>
    /\ \A g \in 1..Len(pitch_groups) : \A h \in 1..Len(pitcher_hands) :
         DictHas(Splits, GroupKey(pitch_groups[g][1], pitcher_hands[h]))
           <=> \E x \in 1..Len(pitch_groups[g][2]) :
                 DictHas(Splits, HandKey(pitch_groups[g][2][x], pitcher_hands[h]))
    /\ \A i \in 1..Len(Splits) :
         IsGroupKey(Splits[i][1]) =>
           /\ Splits[i][1][2] \in RollupCategories
           /\ \E h \in 1..Len(pitcher_hands) :
                Splits[i][1] = GroupKey(Splits[i][1][2], pitcher_hands[h])

\* the slider and the eephus both have a record against left-handers; the
\* Breaking rollup against left-handers is stored, the one against
\* right-handers is not
C21_Witness ==
  /\ ReportFinal
  /\ DictHas(Splits, HandKey("SL", "L"))
  /\ DictHas(Splits, HandKey("EP", "L"))
  /\ DictHas(Splits, GroupKey("Breaking", "L"))
  /\ ~DictHas(Splits, GroupKey("Breaking", "R"))

----------------------------------------------------------------------------
(* Ties among the notable candidates, under SpecTies *)

\* the candidate pool: every non-group record with at least 10 at-bats, in
\* the order of the splits map
CandidatePool ==
  [i \in 1..Len(Qualifying) |->
     NamedEntry(Qualifying[i][2].split_name, Qualifying[i][2])]

\* the place of x in the list, 0 when it is not listed
Place(list, x) ==
  IF \E k \in 1..Len(list) : list[k] = x
  THEN CHOOSE k \in 1..Len(list) : list[k] = x
  ELSE 0

\* C22: of two candidates with equal batting average (a missing average
\* counting as 0.0), the one inserted earlier into the splits map is listed
\* first, and it is the one kept when the list is cut to 5.
C22_TiesKeepInsertionOrder ==
  summary # None =>
    LET ns == summary.notable_splits
        pool == CandidatePool
    IN \A i \in 1..Len(pool) : \A j \in 1..Len(pool) :
         (i < j /\ SortKey(pool[i]) = SortKey(pool[j])) =>
           /\ Place(ns, pool[j]) # 0 => Place(ns, pool[i]) # 0
           /\ Place(ns, pool[j]) # 0 => Place(ns, pool[i]) < Place(ns, pool[j])

----------------------------------------------------------------------------
(* The queries as a function of the at-bats received, under SpecGroups *)

RECURSIVE Flatten(_)
Flatten(ss) == IF ss = << >> THEN << >> ELSE Head(ss) \o Flatten(Tail(ss))

CombinedCall(params) == [fn |-> "get_combined_split_data", params |-> params]

\* the queries for one pitch type and hand, given the keys whose query was
\* answered with at least 5 at-bats
CallsForHand(ok, p, h) ==
  <<CombinedCall(<<<<"pitch_type", p>>, <<"pitcher_throws", h>>>>)>>
  \o (IF HandKey(p, h) \in ok
      THEN [l \in 1..Len(locations) |->
              CombinedCall(<<<<"pitch_type", p>>, <<"pitcher_throws", h>>,
                             <<"home_road", locations[l]>>>>)]
      ELSE << >>)

CallsForPitch(ok, p) ==
  <<CombinedCall(<<<<"pitch_type", p>>>>)>>
  \o (IF PitchKey(p) \in ok
      THEN Flatten([h \in 1..Len(pitcher_hands) |-> CallsForHand(ok, p, pitcher_hands[h])])
      ELSE << >>)

ExpectedCalls(ok) ==
  Flatten([i \in 1..Len(ScopedPitches) |-> CallsForPitch(ok, ScopedPitches[i])])

\* the keys of the report, given the same
ExpectedKeys(ok) ==
  ok \cup {GroupKey(pitch_groups[g][1], pitcher_hands[h]) :
             <<g, h>> \in {<<g, h>> \in (1..Len(pitch_groups)) \X (1..Len(pitcher_hands)) :
                             \E x \in 1..Len(pitch_groups[g][2]) :
                               HandKey(pitch_groups[g][2][x], pitcher_hands[h]) \in ok}}

\* C23: the sequence of remote queries of get_detailed_pitch_splits and the
\* key set of its report are a function of the at-bats received for the
\* queries so far, so two runs that receive the same at-bats issue the same
\* queries and store the same keys.
C23_QueriesFollowAtBats ==
  LET dc == DetailedCalls
      e == ExpectedCalls(okKeys)
  IN /\ Len(dc) <= Len(e)
     /\ dc = SubSeq(e, 1, Len(dc))
     /\ pc = "detailed" => NonGroupKeys = okKeys
     /\ ReportFinal => (dc = e /\ DictKeys(Splits) = ExpectedKeys(okKeys))

\* the run asked seven queries for the slider, one for the eephus, and the
\* slider's record against left-handers brought a rollup
C23_Witness ==
  /\ ReportFinal
  /\ Len(DetailedCalls) = 8
  /\ okKeys = {PitchKey("SL"), HandKey("SL", "L"), HandKey("SL", "R")}
  /\ DictHas(Splits, GroupKey("Breaking", "R"))

----------------------------------------------------------------------------
(* The number of remote calls of get_detailed_pitch_splits, under SpecGroups *)

\* the calls of the detailed stage that ask about pitch type p
CallsAbout(p) ==
  LET dc == DetailedCalls
  IN Cardinality({k \in 1..Len(dc) : dc[k].params[1] = <<"pitch_type", p>>})

\* the loop over the pitch types has left the i-th pitch type behind
PitchDone(i) == pc # "detailed" \/ pos.i > i

CallBounds ==
  (pc \in {"detailed", "groups"} \/ ReportFinal) =>
    /\ Len(DetailedCalls) <= 7 * Len(ScopedPitches)
    /\ Len(pitch_types) = 15
    \* a pitch type the batter is never thrown takes its one call
    /\ Len(DetailedCalls) + (Len(pitch_types) - Len(ScopedPitches)) <= 105
    /\ \A i \in 1..Len(ScopedPitches) :
         /\ CallsAbout(ScopedPitches[i]) <= 7
         /\ (PitchDone(i) /\ ~DictHas(Splits, PitchKey(ScopedPitches[i])))
              => CallsAbout(ScopedPitches[i]) = 1
         /\ PitchDone(i) => CallsAbout(ScopedPitches[i]) >= 1

\* C24: get_detailed_pitch_splits ends after a bounded number of remote
\* calls: one call for a pitch type whose overall result is below the
\* threshold, at most 7 otherwise, at most 105 in all; every step of the
\* loops issues one call, and the rollup phase issues none.
C24_BoundedCalls ==
  /\ []CallBounds
  /\ [][(pc = "detailed") => Len(calls') = Len(calls) + 1]_vars
  /\ [][(pc = "groups") => (calls' = calls /\ pc' = "summary")]_vars

\* the slider took seven calls, the eephus one
C24_Witness ==
  /\ ReportFinal
  /\ CallsAbout("SL") = 7
  /\ CallsAbout("EP") = 1
  /\ ~DictHas(Splits, PitchKey("EP"))

----------------------------------------------------------------------------
(* The order in which the parameters were composed, under SpecCompose *)

SeqRange(q) == {q[i] : i \in 1..Len(q)}

\* the same dimension values, composed in any order
Reorderings(params) == {q \in ParamMaps : SeqRange(q) = SeqRange(params)}

\* the place of the description of dimension d in the name, 0 when absent
DescriptionPlace(params, d) ==
  IF ~DictHas(params, d) THEN 0
  ELSE Cardinality({e \in {"home_road", "pitcher_throws", "pitch_type"} :
                      DictHas(params, e)
                      /\ (e = d \/ e = "home_road" \/ (e = "pitcher_throws" /\ d = "pitch_type"))})

\* C25: two parameter maps with the same dimension values, composed in a
\* different order, give the same set of remote query filters and the same
\* display name, which lists home/away first, then the handedness, then the
\* pitch descriptor.
C25_OrderOfCompositionIrrelevant ==
  built.done =>
    /\ \A q \in Reorderings(built.params) :
         /\ SplitName(q) = built.split_name
         /\ SeqRange(UrlParams(q)) = SeqRange(built.url_params)
    /\ Len(built.split_name) = Len(built.params)
    /\ DictHas(built.params, "home_road") =>
         built.split_name[DescriptionPlace(built.params, "home_road")]
           = DictGet(built.params, "home_road")
    /\ DictHas(built.params, "pitcher_throws") =>
         built.split_name[DescriptionPlace(built.params, "pitcher_throws")]
           = "vs " \o DictGet(built.params, "pitcher_throws") \o "HP"
    /\ DictHas(built.params, "pitch_type") =>
         built.split_name[DescriptionPlace(built.params, "pitch_type")]
           = "on " \o PitchName(DictGet(built.params, "pitch_type"))

\* a call with the pitch type first and the location last has been named
C25_Witness ==
  /\ built.done
  /\ built.params = <<<<"pitch_type", "CU">>, <<"pitcher_throws", "L">>, <<"home_road", "Road">>>>
  /\ built.split_name = <<"Road", "vs LHP", "on Curveball">>
  /\ built.url_params # UrlParams(<<<<"home_road", "Road">>, <<"pitcher_throws", "L">>,
                                    <<"pitch_type", "CU">>>>)

----------------------------------------------------------------------------
(* The order of the stages, under SpecSave *)

\* the steps from one stage to the next that get_complete_player_data takes
StageOrder ==
  {<<"idle", "basic">>, <<"basic", "pitch">>, <<"pitch", "detailed">>,
   <<"detailed", "groups">>, <<"groups", "summary">>, <<"summary", "print">>,
   <<"print", "save">>, <<"print", "idle">>, <<"save", "career">>, <<"career", "idle">>}

Fetching == pc \in {"basic", "pitch", "detailed"}

\* a file of this run has been opened for writing
Persisting == written # << >>

\* C26: the stages run in the order lookup, fetch (basic splits, pitch data,
\* detailed splits), summarize, persist: no file is written before every
\* fetch of the run is done and the summary is generated, and no remote
\* fetch is issued after the first file write.
C26_StagesInOrder ==
  /\ [](Persisting => (pc \in {"career", "idle"} /\ summary # None))
  /\ [][(pc' # pc) => (<<pc, pc'>> \in StageOrder)]_vars
  /\ [][(written' # written /\ written' # << >>) =>
          (pc \in {"save", "career"} /\ summary # None /\ calls' = calls)]_vars
  /\ [][(calls' # calls /\ calls' # << >>) =>
          (Fetching /\ ~Persisting /\ summary = None)]_vars
  /\ [][(Persisting /\ written' # << >>) => calls' = calls]_vars

\* a second run has written its four documents after the fetches and the
\* summary, and is about to merge the cumulative files
C26_Witness ==
  /\ pc = "career"
  /\ runsLeft = 0
  /\ Len(written) = 4
  /\ Len(calls) > Len(BasicCalls)
  /\ summary # None

----------------------------------------------------------------------------
(* The all-players document, under SpecCareer *)

\* the seasons the document holds for a player, as <<season, summary>> pairs
PlayerSeasons(file, name) ==
  IF file.tag = "json" /\ DictHas(file.data, name)
  THEN SeqRange(DictGet(DictGet(file.data, name), "seasons"))
  ELSE {}

\* the entries of the other players
OtherPlayers(file, name) ==
  IF file.tag = "json" THEN {e \in SeqRange(file.data) : e[1] # name} ELSE {}

\* the update of the all-players document in this step left a document behind
AllPlayersUpdated ==
  /\ pc = "career"
  /\ all_players.tag = "json"
  /\ all_players'.tag = "json"

AllPlayersFrame ==
  AllPlayersUpdated =>
    /\ OtherPlayers(all_players', player_name) = OtherPlayers(all_players, player_name)
    /\ {e \in PlayerSeasons(all_players', player_name) : e[1] # ToString(season)}
         = {e \in PlayerSeasons(all_players, player_name) : e[1] # ToString(season)}

\* C27: updating the all-players document for player P and season S sets
\* only P's entry for S and P's lastUpdated; the entries of every other
\* player and of every other season of P stay as they were, after any
\* sequence of runs.
C27_AllPlayersOnlyThisSeason == [][AllPlayersFrame]_vars

\* the same, for the updates in which no file operation fails; the entry
\* for S is then the summary of the run
C27_HoldsWithoutIoFailure ==
  [][(env'.io = env.io) =>
       /\ AllPlayersFrame
       /\ pc = "career" =>
            <<ToString(season), summary>> \in PlayerSeasons(all_players', player_name)]_vars

----------------------------------------------------------------------------
(* The splits map only grows, under SpecGroups *)

\* every entry of the map is in the map of the next state, under the same
\* key and with the same record
EntriesStay ==
  \A i \in 1..Len(Splits) :
    /\ DictHas(detailed_splits'.splits, Splits[i][1])
    /\ DictGet(detailed_splits'.splits, Splits[i][1]) = Splits[i][2]

\* C28: during get_detailed_pitch_splits the splits map only grows, a key
\* once stored is never removed and its record never overwritten; after the
\* function has returned, the summarize and persist stages add, remove and
\* change nothing in the report.
C28_ReportOnlyGrows ==
  /\ [][(pc \in {"detailed", "groups"}) =>
          (EntriesStay /\ Len(detailed_splits'.splits) >= Len(Splits))]_vars
  /\ [][(pc \in {"summary", "print", "save", "career"}) =>
          detailed_splits' = detailed_splits]_vars

\* the run has been persisted with the slider's three records and the two
\* rollups they brought
C28_Witness ==
  /\ RunEnded
  /\ result = "all_data"
  /\ DictKeys(Splits) = {PitchKey("SL"), HandKey("SL", "L"), HandKey("SL", "R"),
                         GroupKey("Breaking", "L"), GroupKey("Breaking", "R")}

----------------------------------------------------------------------------
(* Reaching the persistence stage, under Spec *)

\* C29: after a successful lookup, whatever the fetches brought (records
\* with 'N/A' rates included), generating and printing the summary never
\* raises and the run reaches persistence: the four category documents and
\* both cumulative files are attempted.
C29_PrintNeverRaises ==
  /\ pc = "print" => ~PrintRaises(summary)
  /\ RunEnded =>
       /\ result = "all_data"
       /\ written = RunDocs \o <<CareerName(player_name), AllPlayersName>>

----------------------------------------------------------------------------
(* The filter of the group queries of get_pitch_type_data, under Spec *)

\* "%7C".join(codes) + "%7C"
RECURSIVE PipeList(_)
PipeList(codes) ==
  IF codes = << >> THEN "" ELSE Head(codes) \o "%7C" \o PipeList(Tail(codes))

\* the place, among the calls of the run, of the query for the g-th group
GroupCallPlace(g) == Len(BasicCalls) + Len(InScope(PitchTypeCodes)) + g

\* C30: the remote query that get_pitch_type_data issues for a pitch group
\* (Fastball, Breaking, Offspeed, Other) filters on the pipe-delimited list
\* of the group's member codes, so that the GROUP_<name> record covers the
\* pitches of exactly those codes.
C30_GroupQueryListsMemberCodes ==
  \A g \in 1..Len(PitchDataGroups) :
    Len(calls) >= GroupCallPlace(g) =>
      UrlParams(calls[GroupCallPlace(g)].params)[1]
        = <<"hfPT", PipeList(PitchDataGroups[g][2])>>

====
